---- MODULE Spec2Model ----
(***************************************************************************)
(* numset: decomposition of a generator expression's bytecode into the     *)
(* member, constraint and combined functions (numset.py, lines 26-203),    *)
(* and the Set / Domain / Product / Sum algebra built on them (lines       *)
(* 207-357).                                                               *)
(*                                                                         *)
(* Python indexes are kept 0-based as in the source; At and Slice convert. *)
(***************************************************************************)
EXTENDS Integers, Sequences, FiniteSets, TLC

\* ------------------------------------------------------------------ bounds

\* Largest number of guards ("if" clauses) of an enumerated generator.
MaxGuards == 2
\* Arguments and collection elements are drawn from 0..MaxInt.
MaxInt == 2
\* Steps the interpreter may take before a run is cut (no derived program of
\* the enumerated generators needs that many).
Fuel == 40

\* ------------------------------------------------------------------ values

IntV(n) == [t |-> "int", v |-> <<n>>]
BoolV(b) == [t |-> "bool", v |-> <<IF b THEN 1 ELSE 0>>]
NAN == [t |-> "nan", v |-> <<>>]
NoneV == [t |-> "none", v |-> <<>>]
TupleV(s) == [t |-> "tuple", v |-> s]
Raise(e) == [t |-> e, v |-> <<>>]
\* A run that leaves defined behaviour (no instruction to execute, an empty
\* value stack popped): the interpreter reads memory it does not own.
Fault == [t |-> "Fault", v |-> <<>>]
Pending == [t |-> "pending", v |-> <<>>]

ErrNames == {"TypeError", "UnboundLocalError", "KeyError", "SystemError",
             "Crash", "ValueError", "AttributeError", "IndexError", "Fault"}
\* What a build can do on a Fault.
FaultOutcomes == {"SystemError", "Crash"}

IsErr(x) == x.t \in ErrNames

\* bool(value)
Truthy(x) ==
    CASE x.t = "int" -> x.v[1] # 0
      [] x.t = "bool" -> x.v[1] = 1
      [] x.t = "none" -> FALSE
      [] x.t = "tuple" -> Len(x.v) > 0
      [] OTHER -> TRUE

\* ------------------------------------------------------------ instructions

Ins(op, name, num) == [op |-> op, name |-> name, num |-> num]
Label(n) == Ins("Label", "", n)
\* isinstance(b, bytecode.Instr)
IsInstr(b) == b.op # "Label"
IsJump(b) == b.op \in {"POP_JUMP_IF_FALSE", "JUMP_IF_FALSE_OR_POP",
                       "JUMP_ABSOLUTE", "FOR_ITER"}

\* Python's seq[i] and seq[start:], 0-based.
At(s, i) == s[i + 1]
Slice(s, start) == SubSeq(s, start + 1, Len(s))
\* None, as an index.
NoneIdx == -1
\* b.name on a Label: AttributeError, as an index.
ErrIdx == -2
\* None, as a label.
NoLabel == 0
\* The two labels of a compiled generator expression and the fresh label
\* _get_constraints_bytecode creates.
LoopStart == 1
LoopEnd == 2
EndLabel == 3

\* ------------------------------------------------ the generator expression

\* NOTE 1 of the source: (member for varnames in domain if constraints).
\* A generator is [vars, guards, member, shape]; shape "ok" is what the
\* compiler emits for a generator expression, "noloop" is a code object
\* without FOR_ITER and "noyield" one without YIELD_VALUE.
GuardCode(gd) ==
    << Ins("LOAD_FAST", gd.var, 0), Ins("LOAD_CONST", "int", gd.k),
       Ins("COMPARE_OP", gd.cmp, 0), Ins("POP_JUMP_IF_FALSE", "", LoopStart) >>

RECURSIVE GuardsCode(_)
GuardsCode(gs) ==
    IF gs = <<>> THEN <<>> ELSE GuardCode(Head(gs)) \o GuardsCode(Tail(gs))

RECURSIVE LoadAll(_)
LoadAll(names) ==
    IF names = <<>> THEN <<>>
    ELSE <<Ins("LOAD_FAST", Head(names), 0)>> \o LoadAll(Tail(names))

RECURSIVE StoreAll(_)
StoreAll(names) ==
    IF names = <<>> THEN <<>>
    ELSE <<Ins("STORE_FAST", Head(names), 0)>> \o StoreAll(Tail(names))

MemberCode(g) ==
    CASE g.member.kind = "var" -> <<Ins("LOAD_FAST", g.member.var, 0)>>
      [] g.member.kind = "add" ->
            << Ins("LOAD_FAST", g.member.var, 0),
               Ins("LOAD_CONST", "int", g.member.k), Ins("BINARY_ADD", "", 0) >>
      [] g.member.kind = "const" -> <<Ins("LOAD_CONST", "int", g.member.k)>>
      [] OTHER -> LoadAll(g.vars) \o <<Ins("BUILD_TUPLE", "", Len(g.vars))>>

\* generator.gi_code.co_varnames
co_varnames(g) == <<".0">> \o g.vars

WellFormedCode(g) ==
    << Ins("LOAD_FAST", ".0", 0), Label(LoopStart), Ins("FOR_ITER", "", LoopEnd) >>
    \o (IF Len(g.vars) > 1 THEN <<Ins("UNPACK_SEQUENCE", "", Len(g.vars))>> ELSE <<>>)
    \o StoreAll(g.vars)
    \o GuardsCode(g.guards)
    \o MemberCode(g)
    \o << Ins("YIELD_VALUE", "", 0), Ins("POP_TOP", "", 0),
          Ins("JUMP_ABSOLUTE", "", LoopStart), Label(LoopEnd),
          Ins("LOAD_CONST", "None", 0), Ins("RETURN_VALUE", "", 0) >>

DropOp(code, op) == SelectSeq(code, LAMBDA b : b.op # op)

\* bytecode.Bytecode.from_code(generator.gi_code)
gi_code(g) ==
    CASE g.shape = "noloop" -> DropOp(WellFormedCode(g), "FOR_ITER")
      [] g.shape = "noyield" -> DropOp(WellFormedCode(g), "YIELD_VALUE")
      [] OTHER -> WellFormedCode(g)

\* ------------------------------------------------------------ decomposition

\* _get_new_end_label: the first label of the generator's bytecode.
RECURSIVE FirstLabelFrom(_, _)
FirstLabelFrom(code, i) ==
    IF i >= Len(code) THEN NoLabel
    ELSE IF ~IsInstr(At(code, i)) THEN At(code, i).num
    ELSE FirstLabelFrom(code, i + 1)

_get_new_end_label(old_bytecode) == FirstLabelFrom(old_bytecode, 0)

\* _get_old_end_label: the first label of reversed(old_bytecode).
RECURSIVE LastLabelFrom(_, _)
LastLabelFrom(code, i) ==
    IF i < 0 THEN NoLabel
    ELSE IF ~IsInstr(At(code, i)) THEN At(code, i).num
    ELSE LastLabelFrom(code, i - 1)

_get_old_end_label(old_bytecode) == LastLabelFrom(old_bytecode, Len(old_bytecode) - 1)

\* The loop of _get_new_start from entry i on, with its sentinel and
\* previous_name; NoneIdx when the loop ends without a return.
RECURSIVE NewStartScan(_, _, _, _)
NewStartScan(code, i, sentinel, previous_name) ==
    IF i >= Len(code) THEN NoneIdx
    ELSE LET b == At(code, i) IN
         IF sentinel = 0
         THEN IF IsInstr(b) /\ b.op = "FOR_ITER"
              THEN NewStartScan(code, i + 1, 1, previous_name)
              ELSE NewStartScan(code, i + 1, 0, previous_name)
         ELSE IF sentinel = 1
         THEN IF ~IsInstr(b) THEN ErrIdx
              ELSE IF b.op = "UNPACK_SEQUENCE"
              THEN NewStartScan(code, i + 1, 1, previous_name)
              ELSE NewStartScan(code, i + 1, 2, b.op)
         ELSE IF IsInstr(b) /\ b.op # previous_name THEN i
              ELSE NewStartScan(code, i + 1, sentinel, previous_name)

_get_new_start(old_bytecode) == NewStartScan(old_bytecode, 0, 0, "")

\* old_bytecode[new_start:], where new_start may be None.
FromStart(old_bytecode, new_start) ==
    IF new_start = NoneIdx THEN old_bytecode ELSE Slice(old_bytecode, new_start)

\* The indexes of the POP_JUMP_IF_FALSE instructions (start_list).
PjifIndexes(code) ==
    {i \in 0..(Len(code) - 1) : IsInstr(At(code, i)) /\ At(code, i).op = "POP_JUMP_IF_FALSE"}

SetMax(S) == CHOOSE m \in S : \A n \in S : n <= m

\* The copy loop of _get_member_bytecode: up to the first YIELD_VALUE, which
\* becomes RETURN_VALUE and ends the new code.
RECURSIVE CopyMember(_)
CopyMember(rest) ==
    IF rest = <<>> THEN <<>>
    ELSE IF IsInstr(Head(rest)) /\ Head(rest).op = "YIELD_VALUE"
    THEN <<Ins("RETURN_VALUE", "", 0)>>
    ELSE <<Head(rest)>> \o CopyMember(Tail(rest))

\* A derived Bytecode: its instructions and its argcount. The varnames the
\* source assigns are kept as the source computes them.
NewBytecode(code, varnames) ==
    [code |-> code, varnames |-> varnames, argcount |-> Len(varnames), err |-> ""]
BytecodeError(e) == [code |-> <<>>, varnames |-> <<>>, argcount |-> 0, err |-> e]

_get_member_bytecode(g) ==
    LET old_bytecode == gi_code(g)
        start_list == PjifIndexes(old_bytecode)
        \* ns is the last index the enumerate loop reached
        ns == Len(old_bytecode) - 1
        new_start == IF start_list # {} THEN SetMax(start_list) ELSE ns
    IN  NewBytecode(CopyMember(Slice(old_bytecode, new_start + 1)),
                    SubSeq(co_varnames(g), 1, 1))

PjifCount(code) == Cardinality(PjifIndexes(code))

\* The copy loop of _get_constraints_bytecode with its running pjif_count.
RECURSIVE CopyConstraints(_, _)
CopyConstraints(rest, pjif_count) ==
    IF rest = <<>> THEN <<>>
    ELSE LET b == Head(rest) IN
         IF IsInstr(b) /\ b.op = "POP_JUMP_IF_FALSE"
         THEN IF pjif_count - 1 # 0
              THEN <<Ins("JUMP_IF_FALSE_OR_POP", "", EndLabel)>>
                   \o CopyConstraints(Tail(rest), pjif_count - 1)
              ELSE << Label(EndLabel), Ins("RETURN_VALUE", "", 0) >>
         ELSE <<b>> \o CopyConstraints(Tail(rest), pjif_count)

_get_constraints_bytecode(g) ==
    LET old_bytecode == gi_code(g)
        new_start == _get_new_start(old_bytecode)
    IN  IF new_start = ErrIdx THEN BytecodeError("AttributeError")
        ELSE NewBytecode(CopyConstraints(FromStart(old_bytecode, new_start),
                                         PjifCount(old_bytecode)),
                         SubSeq(co_varnames(g), 1, 1))

_has_constraints(g) == PjifIndexes(gi_code(g)) # {}

\* The copy loop of _generator_to_function_bytecode.
RECURSIVE CopyFunction(_, _, _)
CopyFunction(rest, old_end_label, new_end_label) ==
    IF rest = <<>> THEN <<>>
    ELSE LET i == Head(rest)
             more == CopyFunction(Tail(rest), old_end_label, new_end_label)
         IN  IF IsInstr(i)
             THEN IF i.op = "YIELD_VALUE" THEN <<Ins("RETURN_VALUE", "", 0)>> \o more
                  ELSE IF i.op \in {"POP_TOP", "JUMP_ABSOLUTE", "UNPACK_SEQUENCE"}
                  THEN more
                  ELSE <<i>> \o more
             ELSE IF i.num = old_end_label
                  THEN <<Label(new_end_label)>> \o more
                  ELSE <<i>> \o more

\* new_bytecode[-2] = value
SetSecondLast(code, value) == [code EXCEPT ![Len(code) - 1] = value]

_generator_to_function_bytecode(g) ==
    LET old_bytecode == gi_code(g)
        new_end_label == _get_new_end_label(old_bytecode)
        old_end_label == _get_old_end_label(old_bytecode)
        new_start == _get_new_start(old_bytecode)
        copied == CopyFunction(FromStart(old_bytecode, new_start),
                               old_end_label, new_end_label)
    IN  IF new_start = ErrIdx THEN BytecodeError("AttributeError")
        ELSE IF Len(copied) < 2 THEN BytecodeError("IndexError")
        ELSE NewBytecode(SetSecondLast(copied, Ins("LOAD_CONST", "nan", 0)),
                         Tail(co_varnames(g)))

\* --------------------------------------------------------------- functions

LabelsOf(code) == {code[i].num : i \in {j \in 1..Len(code) : ~IsInstr(code[j])}}
JumpTargets(code) == {code[i].num : i \in {j \in 1..Len(code) : IsJump(code[j])}}

\* The local names of a code object in the order to_code() numbers them: a
\* fresh Bytecode has no argument names, so each name gets the next slot
\* when an instruction first uses it.
RECURSIVE SlotsFrom(_, _)
SlotsFrom(rest, seen) ==
    IF rest = <<>> THEN seen
    ELSE LET b == Head(rest) IN
         IF b.op \in {"LOAD_FAST", "STORE_FAST"}
            /\ ~(\E k \in 1..Len(seen) : seen[k] = b.name)
         THEN SlotsFrom(Tail(rest), Append(seen, b.name))
         ELSE SlotsFrom(Tail(rest), seen)

co_slots(code) == SlotsFrom(code, <<>>)

\* _bytecode_to_function: byte_code.to_code() resolves every jump's label
\* (KeyError when the label is not in the code) and FunctionType wraps it.
_bytecode_to_function(byte_code, name) ==
    IF byte_code.err # ""
    THEN [err |-> byte_code.err, code |-> <<>>, argcount |-> 0, name |-> name]
    ELSE IF ~(JumpTargets(byte_code.code) \subseteq LabelsOf(byte_code.code))
    THEN [err |-> "KeyError", code |-> <<>>, argcount |-> 0, name |-> name]
    ELSE [err |-> "", code |-> byte_code.code, argcount |-> byte_code.argcount,
          name |-> name]

Unset == [err |-> "unset", code |-> <<>>, argcount |-> 0, name |-> ""]
IsFunction(f) == f.err = ""

get_member(g) == _bytecode_to_function(_get_member_bytecode(g), "<member>")

get_constraints(g) ==
    LET fun_bytecode ==
            IF _has_constraints(g) THEN _get_constraints_bytecode(g)
            ELSE NewBytecode(<< Ins("LOAD_CONST", "True", 0),
                                Ins("RETURN_VALUE", "", 0) >>, <<>>)
    IN  _bytecode_to_function(
            IF fun_bytecode.err # "" THEN fun_bytecode
            ELSE NewBytecode(fun_bytecode.code, Tail(co_varnames(g))),
            "<constraint>")

generator_to_function(g) ==
    _bytecode_to_function(_generator_to_function_bytecode(g), "<function>")

\* ------------------------------------------------------------- interpreter

\* The entry a jump to label l continues at: to_code() keeps the last
\* position recorded for a label.
TargetOf(code, l) == SetMax({i \in 0..(Len(code) - 1) :
                              ~IsInstr(At(code, i)) /\ At(code, i).num = l})

ConstOf(b) ==
    CASE b.name = "int" -> IntV(b.num)
      [] b.name = "nan" -> NAN
      [] b.name = "True" -> BoolV(TRUE)
      [] OTHER -> NoneV

Compare(cmp, a, b) ==
    IF a.t \in {"int", "bool"} /\ b.t \in {"int", "bool"}
    THEN IF cmp = "<" THEN BoolV(a.v[1] < b.v[1]) ELSE BoolV(a.v[1] = b.v[1])
    ELSE IF cmp = "<" THEN Raise("TypeError")
    ELSE BoolV(a = b /\ a.t # "nan")

Add(a, b) ==
    IF a.t \in {"int", "bool"} /\ b.t \in {"int", "bool"}
    THEN IntV(a.v[1] + b.v[1])
    ELSE Raise("TypeError")

Top(stack) == stack[Len(stack)]
Pop(stack, n) == SubSeq(stack, 1, Len(stack) - n)

RECURSIVE FlatV(_)
FlatV(vals) == IF vals = <<>> THEN <<>> ELSE Head(vals).v \o FlatV(Tail(vals))

\* The evaluation loop on a function's code: locals, the index of the next
\* entry, the value stack.
RECURSIVE Run(_, _, _, _, _)
Run(code, locals, pc, stack, fuel) ==
    IF fuel = 0 \/ pc >= Len(code) THEN Fault
    ELSE LET b == At(code, pc)
             need == CASE b.op \in {"COMPARE_OP", "BINARY_ADD"} -> 2
                       [] b.op \in {"STORE_FAST", "POP_JUMP_IF_FALSE", "POP_TOP",
                                    "JUMP_IF_FALSE_OR_POP", "RETURN_VALUE",
                                    "UNPACK_SEQUENCE"} -> 1
                       [] b.op = "BUILD_TUPLE" -> b.num
                       [] OTHER -> 0
         IN
         IF Len(stack) < need THEN Fault
         ELSE CASE b.op = "Label" -> Run(code, locals, pc + 1, stack, fuel - 1)
           [] b.op = "LOAD_FAST" ->
                IF b.name \in DOMAIN locals
                THEN Run(code, locals, pc + 1, Append(stack, locals[b.name]), fuel - 1)
                ELSE Raise("UnboundLocalError")
           [] b.op = "STORE_FAST" ->
                Run(code, [n \in DOMAIN locals \cup {b.name} |->
                              IF n = b.name THEN Top(stack) ELSE locals[n]],
                    pc + 1, Pop(stack, 1), fuel - 1)
           [] b.op = "LOAD_CONST" ->
                Run(code, locals, pc + 1, Append(stack, ConstOf(b)), fuel - 1)
           [] b.op = "COMPARE_OP" ->
                LET r == Compare(b.name, stack[Len(stack) - 1], Top(stack)) IN
                IF IsErr(r) THEN r
                ELSE Run(code, locals, pc + 1, Append(Pop(stack, 2), r), fuel - 1)
           [] b.op = "BINARY_ADD" ->
                LET r == Add(stack[Len(stack) - 1], Top(stack)) IN
                IF IsErr(r) THEN r
                ELSE Run(code, locals, pc + 1, Append(Pop(stack, 2), r), fuel - 1)
           [] b.op = "BUILD_TUPLE" ->
                Run(code, locals, pc + 1,
                    Append(Pop(stack, b.num),
                           TupleV(FlatV(SubSeq(stack, Len(stack) - b.num + 1, Len(stack))))),
                    fuel - 1)
           [] b.op = "POP_TOP" -> Run(code, locals, pc + 1, Pop(stack, 1), fuel - 1)
           [] b.op = "POP_JUMP_IF_FALSE" ->
                IF Truthy(Top(stack))
                THEN Run(code, locals, pc + 1, Pop(stack, 1), fuel - 1)
                ELSE Run(code, locals, TargetOf(code, b.num), Pop(stack, 1), fuel - 1)
           [] b.op = "JUMP_IF_FALSE_OR_POP" ->
                IF Truthy(Top(stack))
                THEN Run(code, locals, pc + 1, Pop(stack, 1), fuel - 1)
                ELSE Run(code, locals, TargetOf(code, b.num), stack, fuel - 1)
           [] b.op = "JUMP_ABSOLUTE" ->
                Run(code, locals, TargetOf(code, b.num), stack, fuel - 1)
           [] b.op = "RETURN_VALUE" -> Top(stack)
           [] b.op = "UNPACK_SEQUENCE" ->
                IF Top(stack).t = "tuple" /\ Len(Top(stack).v) = b.num
                THEN Run(code, locals, pc + 1,
                         Pop(stack, 1) \o [k \in 1..b.num |->
                                              IntV(Top(stack).v[b.num + 1 - k])],
                         fuel - 1)
                ELSE IF Top(stack).t = "tuple" THEN Raise("ValueError")
                ELSE Raise("TypeError")
           [] OTHER -> Fault

\* function(*args): the arguments fill the first argcount local slots.
Call(f, args) ==
    IF Len(args) # f.argcount THEN Raise("TypeError")
    ELSE LET slots == co_slots(f.code)
             n == IF Len(slots) < Len(args) THEN Len(slots) ELSE Len(args)
         IN  Run(f.code, [name \in {slots[k] : k \in 1..n} |->
                             args[CHOOSE k \in 1..n : slots[k] = name]],
                 0, <<>>, Fuel)

\* ------------------------------------- what the generator expression means

Range(s) == {s[i] : i \in 1..Len(s)}
SeqsUpTo(S, n) == UNION {[1..k -> S] : k \in 0..n}

\* The loop variables bound to one element: x for a single name, the
\* unpacked items for several.
GenEnv(g, args) ==
    [name \in Range(g.vars) |-> args[CHOOSE k \in 1..Len(g.vars) : g.vars[k] = name]]

GuardHolds(gd, env) == Truthy(Compare(gd.cmp, env[gd.var], IntV(gd.k)))

\* "if g1 if g2 ...": every guard holds.
AllGuards(g, env) == \A k \in 1..Len(g.guards) : GuardHolds(g.guards[k], env)

\* The value the generator yields for an element that passes the guards.
MemberValue(g, env) ==
    CASE g.member.kind = "var" -> env[g.member.var]
      [] g.member.kind = "add" -> Add(env[g.member.var], IntV(g.member.k))
      [] g.member.kind = "const" -> IntV(g.member.k)
      [] OTHER -> TupleV(FlatV([k \in 1..Len(g.vars) |-> env[g.vars[k]]]))

\* ------------------------------------------------------------------- state

VARIABLES
    generator,    \* the generator expression handed to the decomposition
    args,         \* the arguments the derived functions are called with
    member,       \* get_member(generator), once computed
    constraint,   \* get_constraints(generator), once computed
    function,     \* generator_to_function(generator), once computed
    rmember,      \* member(*args), once called
    rconstraint,  \* constraint(*args), once called
    rfunction,    \* function(*args), once called
    heap,         \* the Set, Domain, Product and Sum objects, by identity
    last          \* the last operation on the heap and its outcome

dvars == <<generator, args, member, constraint, function,
           rmember, rconstraint, rfunction>>
vars == <<generator, args, member, constraint, function,
          rmember, rconstraint, rfunction, heap, last>>

\* ------------------------------------------ the enumerated generator family

LoopVars == {<<"x">>, <<"x", "y">>}
Shapes == {"ok", "noloop", "noyield"}
GuardsOver(vs) == [var : Range(vs), cmp : {"<", "=="}, k : {1}]
MembersOver(vs) ==
    [kind : {"var", "add"}, var : Range(vs), k : {1}]
    \cup [kind : {"const", "tuple"}, var : {"x"}, k : {1}]

Generators ==
    UNION {[vars : {vs}, guards : SeqsUpTo(GuardsOver(vs), MaxGuards),
            member : MembersOver(vs), shape : Shapes] : vs \in LoopVars}

ArgsFor(g) == [1..Len(g.vars) -> {IntV(n) : n \in 0..MaxInt}]

NoOp == [op |-> "none"]

\* An outcome of a call: a Fault is whatever the build does with it.
Outcomes(r) == IF r = Fault THEN {Raise(e) : e \in FaultOutcomes} ELSE {r}

\* ------------------------------------------------- decomposition, as a run

InitD ==
    /\ generator \in Generators
    /\ args \in ArgsFor(generator)
    /\ member = Unset
    /\ constraint = Unset
    /\ function = Unset
    /\ rmember = Pending
    /\ rconstraint = Pending
    /\ rfunction = Pending
    /\ heap = <<>>
    /\ last = NoOp

GetMember ==
    /\ member = Unset
    /\ member' = get_member(generator)
    /\ UNCHANGED <<generator, args, constraint, function,
                   rmember, rconstraint, rfunction, heap, last>>

GetConstraints ==
    /\ constraint = Unset
    /\ constraint' = get_constraints(generator)
    /\ UNCHANGED <<generator, args, member, function,
                   rmember, rconstraint, rfunction, heap, last>>

GeneratorToFunction ==
    /\ function = Unset
    /\ function' = generator_to_function(generator)
    /\ UNCHANGED <<generator, args, member, constraint,
                   rmember, rconstraint, rfunction, heap, last>>

CallMember ==
    /\ IsFunction(member)
    /\ rmember = Pending
    /\ rmember' \in Outcomes(Call(member, args))
    /\ UNCHANGED <<generator, args, member, constraint, function,
                   rconstraint, rfunction, heap, last>>

CallConstraint ==
    /\ IsFunction(constraint)
    /\ rconstraint = Pending
    /\ rconstraint' \in Outcomes(Call(constraint, args))
    /\ UNCHANGED <<generator, args, member, constraint, function,
                   rmember, rfunction, heap, last>>

CallFunction ==
    /\ IsFunction(function)
    /\ rfunction = Pending
    /\ rfunction' \in Outcomes(Call(function, args))
    /\ UNCHANGED <<generator, args, member, constraint, function,
                   rmember, rconstraint, heap, last>>

NextD ==
    \/ GetMember
    \/ GetConstraints
    \/ GeneratorToFunction
    \/ CallMember
    \/ CallConstraint
    \/ CallFunction

SpecD == InitD /\ [][NextD]_vars

\* ------------------------------------------- claims on the decomposition

AllCalled == rmember # Pending /\ rconstraint # Pending /\ rfunction # Pending

\* C1: for every generator of the supported shape and every argument tuple,
\* function(*args) is member(*args) when constraint(*args) is true and the
\* not-a-number sentinel when it is false; with no guard, function(*args) is
\* member(*args) on every input.
C1_CombinedIsMemberOrNan ==
    (generator.shape = "ok" /\ AllCalled) =>
        /\ ~IsErr(rconstraint)
        /\ Truthy(rconstraint) => rfunction = rmember
        /\ ~Truthy(rconstraint) => rfunction = NAN

\* C2: constraint(*args) is true exactly when every guard of the generator is
\* true of the loop variables bound to args, and true for a generator with no
\* guard.
C2_ConstraintIsConjunction ==
    (generator.shape = "ok" /\ rconstraint # Pending) =>
        rconstraint = BoolV(AllGuards(generator, GenEnv(generator, args)))

\* C8: for a code object without FOR_ITER or without YIELD_VALUE, none of
\* get_member, get_constraints and generator_to_function returns a function.
C8_MalformedIsRejected ==
    generator.shape # "ok" =>
        /\ member # Unset => ~IsFunction(member)
        /\ constraint # Unset => ~IsFunction(constraint)
        /\ function # Unset => ~IsFunction(function)

\* ------------------------------------------------------------------ numpy

\* Array values are kept as sequences of numbers; the set routines below
\* work as numpy's do: on the flattened, sorted, de-duplicated operands.
RECURSIVE Insert(_, _)
Insert(n, sorted) ==
    IF sorted = <<>> THEN <<n>>
    ELSE IF n <= Head(sorted) THEN <<n>> \o sorted
    ELSE <<Head(sorted)>> \o Insert(n, Tail(sorted))

RECURSIVE Sort(_)
Sort(ar) == IF ar = <<>> THEN <<>> ELSE Insert(Head(ar), Sort(Tail(ar)))

\* numpy.unique: sort, then keep each entry that differs from the one before.
unique(ar) ==
    LET aux == Sort(ar)
        keep == {i \in 1..Len(aux) : i = 1 \/ aux[i] # aux[i - 1]}
    IN  [k \in 1..Cardinality(keep) |->
            aux[CHOOSE i \in keep : Cardinality({j \in keep : j < i}) = k - 1]]

\* The entries of aux at the positions of P, in order.
Pick(aux, P) ==
    [k \in 1..Cardinality(P) |->
        aux[CHOOSE i \in P : Cardinality({j \in P : j < i}) = k - 1]]

\* A union that sorts the concatenation and keeps duplicates.
union1d_with_duplicates(ar1, ar2) == Sort(ar1 \o ar2)

union1d(ar1, ar2) == unique(ar1 \o ar2)

intersect1d(ar1, ar2) ==
    LET aux == Sort(unique(ar1) \o unique(ar2))
    IN  Pick(aux, {i \in 1..(Len(aux) - 1) : aux[i + 1] = aux[i]})

in1d(ar1, ar2) == [i \in 1..Len(ar1) |-> \E j \in 1..Len(ar2) : ar2[j] = ar1[i]]

setdiff1d(ar1, ar2) ==
    LET u1 == unique(ar1)
        mask == in1d(u1, unique(ar2))
    IN  Pick(u1, {i \in 1..Len(u1) : ~mask[i]})

setxor1d(ar1, ar2) ==
    LET aux == Sort(unique(ar1) \o unique(ar2))
        \* flag = [True] + (aux[1:] != aux[:-1]) + [True], 0-based
        flag(i) == i = 0 \/ i = Len(aux) \/ At(aux, i) # At(aux, i - 1)
    IN  Pick(aux, {i \in 1..Len(aux) : flag(i) /\ flag(i - 1)})

\* a.shape of numpy.array(list of values)
Shape(elements) ==
    IF elements = <<>> THEN <<0>>
    ELSE IF elements[1].t = "tuple" THEN <<Len(elements), Len(elements[1].v)>>
    ELSE <<Len(elements)>>

\* An equality that compares the arrays as sets of entries.
array_equal_unordered(a1, a2) ==
    Shape(a1) = Shape(a2) /\ Range(a1) = Range(a2)

array_equal(a1, a2) ==
    IF Shape(a1) # Shape(a2) THEN FALSE
    ELSE \A i \in 1..Len(a1) : a1[i].v = a2[i].v

\* The flattened numbers of an array, and an array of numbers.
Numbers(elements) == FlatV(elements)
Array(nums) == [i \in 1..Len(nums) |-> IntV(nums[i])]

\* ------------------------------------------------------------- the objects

\* An object of the heap. A Set holds its generator expression, the items its
\* generator's domain iterator (".0") has still to give (source), the Set
\* whose _ConstrainedSet iterator that domain is (upstream, 0 for none) and
\* its elements (mat is "elements is not None"). A Domain holds elements, a
\* Product its factors (its "elements" list), a Sum its left and right.
NoGen == [vars |-> <<>>, guards |-> <<>>,
          member |-> [kind |-> "none", var |-> "", k |-> 0], shape |-> "none"]
NoObj == [kind |-> "none", expression |-> NoGen, source |-> <<>>, upstream |-> 0,
          mat |-> FALSE, elements |-> <<>>, factors |-> <<>>, left |-> 0, right |-> 0]

\* The result of a method: the heap it leaves, what it returns (values in
\* out, a new object in obj) or the exception it raises.
Res(h, out, exc, obj) == [heap |-> h, out |-> out, exc |-> exc, obj |-> obj]

\* Set.__init__: the three functions are derived from the expression and
\* elements starts as None.
Set__init__(expression, source, upstream) ==
    [NoObj EXCEPT !.kind = "Set", !.expression = expression, !.source = source,
                  !.upstream = upstream, !.mat = FALSE]

SetConstraint(obj) == get_constraints(obj.expression)
SetFunction(obj) == generator_to_function(obj.expression)

\* Domain.__init__
Domain__init__(iterable) ==
    [NoObj EXCEPT !.kind = "Domain", !.mat = TRUE, !.elements = iterable]

\* Product.__init__: the factors of a Product argument are spliced in.
\* A Product that keeps a Product argument as one factor.
Flatten_nested(h, sets) == sets

RECURSIVE Flatten(_, _)
Flatten(h, sets) ==
    IF sets = <<>> THEN <<>>
    ELSE (IF h[Head(sets)].kind = "Product" THEN h[Head(sets)].factors
          ELSE <<Head(sets)>>) \o Flatten(h, Tail(sets))

Product__init__(h, sets) ==
    [NoObj EXCEPT !.kind = "Product", !.mat = TRUE, !.factors = Flatten(h, sets)]

\* Sum.__init__
Sum__init__(left, right) ==
    [NoObj EXCEPT !.kind = "Sum", !.left = left, !.right = right]

\* hasattr(obj, "elements"), and obj.elements is None
HasElements(obj) == obj.kind \in {"Set", "Domain", "Product"}
ElementsIsNone(obj) == obj.kind = "Set" /\ ~obj.mat

\* The arguments one item of the domain gives the loop variables.
ItemArgs(g, item) ==
    IF Len(g.vars) = 1 THEN <<item>>
    ELSE [k \in 1..Len(item.v) |-> IntV(item.v[k])]

\* list(self.expression): the generator run over what its domain still has.
RECURSIVE GenList(_, _)
GenList(g, items) ==
    IF items = <<>> THEN <<>>
    ELSE LET env == GenEnv(g, ItemArgs(g, Head(items)))
         IN  (IF AllGuards(g, env) THEN <<MemberValue(g, env)>> ELSE <<>>)
             \o GenList(g, Tail(items))

\* A Set.__iter__ without the "elements is None" test: the exhausted
\* generator is listed again.
Set__iter__refilling(h, o) ==
    [h EXCEPT ![o].elements = GenList(h[o].expression, h[o].source),
              ![o].mat = TRUE,
              ![o].source = <<>>]

\* Set.__iter__, the heap it leaves: elements are filled once, from the
\* generator, which is exhausted by it.
Set__iter__(h, o) ==
    IF ~h[o].mat
    THEN [h EXCEPT ![o].elements = GenList(h[o].expression, h[o].source),
                   ![o].mat = TRUE,
                   ![o].source = <<>>]
    ELSE h

\* list(obj), the heap it leaves: zip and chain call iter() on their parts.
RECURSIVE Consume(_, _)
RECURSIVE ConsumeAll(_, _)
ConsumeAll(h, os) ==
    IF os = <<>> THEN h ELSE ConsumeAll(Consume(h, Head(os)), Tail(os))
Consume(h, o) ==
    CASE h[o].kind = "Set" -> Set__iter__(h, o)
      [] h[o].kind = "Product" -> ConsumeAll(h, h[o].factors)
      [] h[o].kind = "Sum" -> ConsumeAll(h, <<h[o].left, h[o].right>>)
      [] OTHER -> h

\* An iter(obj) that is put off: nothing is asked of obj yet.
IterHeap_deferred(h, o) == h

\* iter(obj), the heap it leaves: itertools.chain asks its parts for their
\* iterators only when it is consumed.
IterHeap(h, o) == IF h[o].kind = "Sum" THEN h ELSE Consume(h, o)

MinLen(lists) ==
    IF lists = <<>> THEN 0
    ELSE CHOOSE n \in {Len(lists[k]) : k \in 1..Len(lists)} :
            \A k \in 1..Len(lists) : n <= Len(lists[k])

\* An item of a tuple: a number as itself, a tuple between two markers.
TupleOpen == -1
TupleClose == -2
Nest(e) == IF e.t = "tuple" THEN <<TupleOpen>> \o e.v \o <<TupleClose>> ELSE e.v

RECURSIVE NestAll(_)
NestAll(vals) == IF vals = <<>> THEN <<>> ELSE Nest(Head(vals)) \o NestAll(Tail(vals))

\* zip(*lists)
Zip(lists) ==
    [i \in 1..MinLen(lists) |-> TupleV(NestAll([k \in 1..Len(lists) |-> lists[k][i]]))]

\* What iterating obj gives, on the heap Consume(h, o) left.
RECURSIVE Items(_, _)
Items(h, o) ==
    CASE h[o].kind = "Product" ->
            Zip([k \in 1..Len(h[o].factors) |-> Items(h, h[o].factors[k])])
      [] h[o].kind = "Sum" -> Items(h, h[o].left) \o Items(h, h[o].right)
      [] OTHER -> h[o].elements

\* _ensure_elements, before the method runs: the heap it leaves and the
\* AttributeError of an operand without "elements".
_ensure_elements(h, self, other) ==
    IF ~HasElements(h[self]) THEN [heap |-> h, exc |-> "AttributeError"]
    ELSE LET h1 == IF ElementsIsNone(h[self]) THEN Set__iter__(h, self) ELSE h IN
         IF ~HasElements(h1[other]) THEN [heap |-> h1, exc |-> "AttributeError"]
         ELSE [heap |-> IF ElementsIsNone(h1[other]) THEN Set__iter__(h1, other)
                        ELSE h1,
               exc |-> ""]

\* The wrapper of _ensure_elements when an operand has no "elements".
Failed(e) == Res(e.heap, <<>>, e.exc, NoObj)

\* The generator of Set(x for x in result).
Identity ==
    [vars |-> <<"x">>, guards |-> <<>>,
     member |-> [kind |-> "var", var |-> "x", k |-> 1], shape |-> "ok"]

SetOfArray(result) == Set__init__(Identity, Array(result), 0)

BaseSet__eq__(h, self, other) ==
    LET e == _ensure_elements(h, self, other)
    IN  IF e.exc # "" THEN Failed(e) ELSE
            Res(e.heap, <<BoolV(array_equal(e.heap[self].elements, e.heap[other].elements))>>, "", NoObj)

\* issubset is not decorated: an absent buffer reaches numpy as None, which
\* in1d takes as the one-entry array [None].
Scalars(obj) ==
    IF ElementsIsNone(obj) THEN <<NoneV>> ELSE Array(Numbers(obj.elements))
BaseSet_issubset(h, self, other) ==
    LET mask == in1d(Scalars(h[self]), Scalars(h[other]))
    IN  Res(h, [i \in 1..Len(mask) |-> BoolV(mask[i])], "", NoObj)

BaseSet_isdisjoint(h, self, other) ==
    LET e == _ensure_elements(h, self, other)
    IN  IF e.exc # "" THEN Failed(e) ELSE
            LET diff == intersect1d(Numbers(e.heap[self].elements), Numbers(e.heap[other].elements))
            IN  Res(e.heap, <<BoolV(Len(diff) = 0)>>, "", NoObj)

BaseSet_union(h, self, other) ==
    LET e == _ensure_elements(h, self, other)
    IN  IF e.exc # "" THEN Failed(e) ELSE
            Res(e.heap, <<>>, "", SetOfArray(union1d(Numbers(e.heap[self].elements),
            Numbers(e.heap[other].elements))))

BaseSet_intersection(h, self, other) ==
    LET e == _ensure_elements(h, self, other)
    IN  IF e.exc # "" THEN Failed(e) ELSE
            Res(e.heap, <<>>, "", SetOfArray(intersect1d(Numbers(e.heap[self].elements),
            Numbers(e.heap[other].elements))))

BaseSet_difference(h, self, other) ==
    LET e == _ensure_elements(h, self, other)
    IN  IF e.exc # "" THEN Failed(e) ELSE
            Res(e.heap, <<>>, "", SetOfArray(setdiff1d(Numbers(e.heap[self].elements),
            Numbers(e.heap[other].elements))))

BaseSet_symmetric_difference(h, self, other) ==
    LET e == _ensure_elements(h, self, other)
    IN  IF e.exc # "" THEN Failed(e) ELSE
            Res(e.heap, <<>>, "", SetOfArray(setxor1d(Numbers(e.heap[self].elements),
            Numbers(e.heap[other].elements))))

BaseSet__mul__(h, self, other) ==
    LET e == _ensure_elements(h, self, other)
    IN  IF e.exc # "" THEN Failed(e) ELSE
            Res(e.heap, <<>>, "", Product__init__(e.heap, <<self, other>>))

BaseSet__add__(h, self, other) ==
    LET e == _ensure_elements(h, self, other)
    IN  IF e.exc # "" THEN Failed(e) ELSE
            Res(e.heap, <<>>, "", Sum__init__(self, other))

\* __pow__: list(zip(*[self.elements] * value)) as a Domain.
BaseSet__pow__(h, self, value) ==
    IF ~HasElements(h[self]) THEN Res(h, <<>>, "AttributeError", NoObj)
    ELSE LET h1 == IF ElementsIsNone(h[self]) THEN Set__iter__(h, self) ELSE h
             arrays == [k \in 1..value |-> h1[self].elements]
         IN  Res(h1, <<>>, "", Domain__init__(Zip(arrays)))

\* self.function(*arguments): constrained_function when the domain is the
\* _ConstrainedSet iterator of another Set, else the combined function.
SetFunctionCall(h, self, arguments) ==
    LET _function == SetFunction(h[self]) IN
    IF h[self].upstream # 0
    THEN LET c == Call(SetConstraint(h[h[self].upstream]), arguments) IN
         IF IsErr(c) THEN c
         ELSE IF Truthy(c) THEN Call(_function, arguments)
         ELSE Raise("ValueError")
    ELSE Call(_function, arguments)

Returned(h, r) ==
    IF IsErr(r) THEN Res(h, <<>>, r.t, NoObj) ELSE Res(h, <<r>>, "", NoObj)

\* A call that skips the constraint of the upstream Set.
Set__call__unconstrained(h, self, arguments) ==
    Returned(h, Call(SetFunction(h[self]), arguments))

\* A call that fills the elements before it answers.
Set__call__filling(h, self, arguments) ==
    Returned(Set__iter__(h, self), SetFunctionCall(h, self, arguments))

\* Set.__call__
Set__call__(h, self, arguments) ==
    Returned(h, SetFunctionCall(h, self, arguments))

\* list(obj)
Iterate(h, o) == LET h1 == Consume(h, o) IN Res(h1, Items(h1, o), "", NoObj)

\* ------------------------------------------------------------ the programs

\* Objects a program of Spec may hold at once.
MaxObjs == 2
\* Longest collection of integers the Sets of SpecA are built over.
MaxLen == 2
\* Products a program of SpecP may hold besides its three operands.
MaxProducts == 1
\* Largest exponent of **.
MaxPow == 2

\* The generator expressions Sets are built from: x or x + 1, for x in the
\* domain, unguarded or "if x < 1".
SetGens ==
    {g \in Generators : /\ g.shape = "ok"
                        /\ g.vars = <<"x">>
                        /\ g.member.kind \in {"var", "add"}
                        /\ g.guards \in {<<>>, <<[var |-> "x", cmp |-> "<", k |-> 1]>>}}

\* The finite collections Sets and Domains are built over.
Colls == {Array(<<0, 1>>), Array(<<1, 0, 1>>)}
IntColls == {Array(c) : c \in SeqsUpTo(0..MaxInt, MaxLen)}

\* The argument tuples of a call.
CallArgs == {<<IntV(n)>> : n \in 0..MaxInt} \cup {<<IntV(0), IntV(1)>>}

\* The generator can run over the items: arithmetic and comparisons are on
\* numbers.
Compatible(g, items) ==
    g = Identity \/ \A i \in 1..Len(items) : items[i].t = "int"

Objs == 1..Len(heap)
IsArray(o) == heap[o].kind \in {"Set", "Domain", "Sum"}

Idle == [op |-> "none", a |-> 0, b |-> 0, args |-> <<>>, amat |-> FALSE,
         bmat |-> FALSE, out |-> <<>>, exc |-> "", r |-> 0, obj |-> NoObj]

\* One operation of the program: the heap the method leaves, the object it
\* returned kept when the program binds it (keep), and what was seen.
Step(op, a, b, arguments, res, keep) ==
    LET made == keep /\ res.exc = "" /\ res.obj # NoObj IN
    /\ heap' = IF made THEN Append(res.heap, res.obj) ELSE res.heap
    /\ last' = [op |-> op, a |-> a, b |-> b, args |-> arguments,
                amat |-> a # 0 /\ heap[a].mat,
                bmat |-> b # 0 /\ heap[b].mat,
                out |-> res.out, exc |-> res.exc,
                r |-> IF made THEN Len(heap) + 1 ELSE 0,
                obj |-> res.obj]
    /\ UNCHANGED dvars

\* S = Set(<g> for x in <coll>)
NewSet(coll, g, cap) ==
    /\ Len(heap) < cap
    /\ Compatible(g, coll)
    /\ Step("set", 0, 0, <<>>, Res(heap, <<>>, "", Set__init__(g, coll, 0)), TRUE)

\* D = Domain(<coll>)
NewDomain(coll, cap) ==
    /\ Len(heap) < cap
    /\ Step("domain", 0, 0, <<>>, Res(heap, <<>>, "", Domain__init__(coll)), TRUE)

\* S = Set(<g> for x in d): the generator expression takes iter(d) when it is
\* created, which for a Set d fills d.elements and gives a _ConstrainedSet.
NewSetOver(d, g, cap) ==
    LET h1 == IterHeap(heap, d)
        source == Items(Consume(heap, d), d)
        upstream == IF heap[d].kind = "Set" THEN d ELSE 0
    IN  /\ Len(heap) < cap
        /\ Compatible(g, source)
        /\ Step("setover", d, 0, <<>>,
                Res(h1, <<>>, "", Set__init__(g, source, upstream)), TRUE)

\* list(o)
List(o) == Step("iter", o, 0, <<>>, Iterate(heap, o), FALSE)

\* o(*arguments)
CallSet(o, arguments) ==
    /\ heap[o].kind = "Set"
    /\ Step("call", o, 0, arguments, Set__call__(heap, o, arguments), FALSE)

Eq(a, b) ==
    /\ IsArray(a) /\ IsArray(b)
    /\ Step("eq", a, b, <<>>, BaseSet__eq__(heap, a, b), FALSE)

IsSubset(a, b) ==
    /\ heap[a].kind \in {"Set", "Domain"} /\ heap[b].kind \in {"Set", "Domain"}
    /\ Step("issubset", a, b, <<>>, BaseSet_issubset(heap, a, b), FALSE)

IsDisjoint(a, b) ==
    /\ IsArray(a) /\ IsArray(b)
    /\ Step("isdisjoint", a, b, <<>>, BaseSet_isdisjoint(heap, a, b), FALSE)

Union(a, b, keep, cap) ==
    /\ IsArray(a) /\ IsArray(b)
    /\ keep => Len(heap) < cap
    /\ Step("union", a, b, <<>>, BaseSet_union(heap, a, b), keep)

Intersection(a, b, keep, cap) ==
    /\ IsArray(a) /\ IsArray(b)
    /\ keep => Len(heap) < cap
    /\ Step("intersection", a, b, <<>>, BaseSet_intersection(heap, a, b), keep)

Difference(a, b, keep, cap) ==
    /\ IsArray(a) /\ IsArray(b)
    /\ keep => Len(heap) < cap
    /\ Step("difference", a, b, <<>>, BaseSet_difference(heap, a, b), keep)

SymmetricDifference(a, b, keep, cap) ==
    /\ IsArray(a) /\ IsArray(b)
    /\ keep => Len(heap) < cap
    /\ Step("symmetric_difference", a, b, <<>>,
            BaseSet_symmetric_difference(heap, a, b), keep)

Mul(a, b, keep, cap) ==
    /\ keep => Len(heap) < cap
    /\ Step("mul", a, b, <<>>, BaseSet__mul__(heap, a, b), keep)

Pow(a, value, keep, cap) ==
    /\ IsArray(a)
    /\ keep => Len(heap) < cap
    /\ Step("pow", a, 0, <<IntV(value)>>, BaseSet__pow__(heap, a, value), keep)

AddSets(a, b, keep, cap) ==
    /\ keep => Len(heap) < cap
    /\ Step("add", a, b, <<>>, BaseSet__add__(heap, a, b), keep)

\* The decomposition is not part of these programs.
NoDecomposition ==
    /\ generator = Identity
    /\ args = <<>>
    /\ member = Unset /\ constraint = Unset /\ function = Unset
    /\ rmember = Pending /\ rconstraint = Pending /\ rfunction = Pending

\* A program that builds Sets and Domains and uses them.
Init ==
    /\ NoDecomposition
    /\ heap = <<>>
    /\ last = Idle

Next ==
    \/ \E coll \in Colls, g \in SetGens : NewSet(coll, g, MaxObjs)
    \/ \E coll \in Colls : NewDomain(coll, MaxObjs)
    \/ \E d \in Objs, g \in SetGens : NewSetOver(d, g, MaxObjs)
    \/ \E o \in Objs : List(o)
    \/ \E o \in Objs, arguments \in CallArgs : CallSet(o, arguments)
    \/ \E a, b \in Objs : Eq(a, b)
    \/ \E a, b \in Objs : IsSubset(a, b)
    \/ \E a, b \in Objs : IsDisjoint(a, b)
    \/ \E a, b \in Objs, keep \in BOOLEAN : Union(a, b, keep, MaxObjs)
    \/ \E a, b \in Objs, keep \in BOOLEAN : Intersection(a, b, keep, MaxObjs)
    \/ \E a, b \in Objs, keep \in BOOLEAN : Difference(a, b, keep, MaxObjs)
    \/ \E a, b \in Objs, keep \in BOOLEAN : SymmetricDifference(a, b, keep, MaxObjs)
    \/ \E a, b \in Objs, keep \in BOOLEAN : Mul(a, b, keep, MaxObjs)
    \/ \E a \in Objs, value \in 0..MaxPow, keep \in BOOLEAN : Pow(a, value, keep, MaxObjs)
    \/ \E a, b \in Objs, keep \in BOOLEAN : AddSets(a, b, keep, MaxObjs)

Spec == Init /\ [][Next]_vars

\* A program over two Sets of integers: A = Set(x for x in <c1>),
\* B = Set(x for x in <c2>), then set operations and comparisons.
InitA ==
    /\ NoDecomposition
    /\ \E c1, c2 \in IntColls :
          heap = <<Set__init__(Identity, c1, 0), Set__init__(Identity, c2, 0)>>
    /\ last = Idle

NextA ==
    \/ \E o \in Objs : List(o)
    \/ \E a, b \in Objs : a < b /\ Eq(a, b)
    \/ \E a, b \in Objs : a < b /\ Union(a, b, FALSE, 0)
    \/ \E a, b \in Objs : a < b /\ Intersection(a, b, FALSE, 0)
    \/ \E a, b \in Objs : a < b /\ Difference(a, b, FALSE, 0)
    \/ \E a, b \in Objs : a < b /\ SymmetricDifference(a, b, FALSE, 0)

SpecA == InitA /\ [][NextA]_vars

\* A program that calls Sets: A = Set(<gA> for x in <coll>), then either
\* B = Set(<gB> for x in A) or B = Set(<gB> for x in <coll>), then calls
\* and listings of both.
InitC ==
    /\ NoDecomposition
    /\ \E coll \in Colls, gA, gB \in SetGens, over \in BOOLEAN :
          LET h0 == <<Set__init__(gA, coll, 0)>>
              h1 == IterHeap(h0, 1)
          IN  heap = IF over
                     THEN Append(h1, Set__init__(gB, Items(h1, 1), 1))
                     ELSE Append(h0, Set__init__(gB, coll, 0))
    /\ last = Idle

NextC ==
    \/ \E o \in Objs : List(o)
    \/ \E o \in Objs, arguments \in CallArgs : CallSet(o, arguments)

SpecC == InitC /\ [][NextC]_vars

\* A program over three Sets or Domains A, B, C, then products of them.
Bases ==
    {Set__init__(Identity, c, 0) : c \in Colls} \cup {Domain__init__(Array(<<2, 0>>))}

InitP ==
    /\ NoDecomposition
    /\ \E A, B, C \in Bases : heap = <<A, B, C>>
    /\ last = Idle

NextP ==
    \/ \E o \in Objs : List(o)
    \/ \E a, b \in Objs, keep \in BOOLEAN : Mul(a, b, keep, 3 + MaxProducts)

SpecP == InitP /\ [][NextP]_vars

\* ----------------------------------------------------- claims on the objects

\* What the generator expression g gives for one element, read from its
\* source text: the member where every guard holds, else numpy.nan.
Combined(g, env) == IF AllGuards(g, env) THEN MemberValue(g, env) ELSE NAN

\* C3: for a Set B whose domain is another Set A, a call of B with one
\* argument checks A's guards on it first. Where they fail the call raises
\* ValueError and returns nothing; where they hold it returns what B's own
\* combined function gives. The call changes no object.
C3_UpstreamIsCheckedFirst ==
    [][(last'.op = "call" /\ heap[last'.a].upstream # 0 /\ Len(last'.args) = 1) =>
          LET B == heap[last'.a]
              A == heap[B.upstream]
              x == GenEnv(A.expression, last'.args)
          IN  /\ heap' = heap
              /\ ~AllGuards(A.expression, x) =>
                    last'.exc = "ValueError" /\ last'.out = <<>>
              /\ AllGuards(A.expression, x) =>
                    last'.exc = "" /\ last'.out = <<Combined(B.expression, x)>>]_vars

\* C3, reached: a call of a Set over a Set was refused with ValueError.
C3_Refused ==
    /\ last.op = "call"
    /\ heap[last.a].upstream # 0
    /\ last.exc = "ValueError"
    /\ last.out = <<>>

\* C4: once a Set's elements are filled, no operation changes them or
\* empties them again, and listing the Set gives exactly those elements.
C4_MaterializedIsTerminal ==
    [][/\ \A o \in 1..Len(heap) :
             (heap[o].kind = "Set" /\ heap[o].mat) =>
                 /\ Len(heap') >= o
                 /\ heap'[o].mat
                 /\ heap'[o].elements = heap[o].elements
       /\ (last'.op = "iter" /\ heap[last'.a].kind = "Set" /\ heap[last'.a].mat) =>
             last'.out = heap[last'.a].elements]_vars

\* C4, reached: a Set that was already filled, with at least one element,
\* was listed again.
C4_ListedAgain ==
    /\ last.op = "iter"
    /\ heap[last.a].kind = "Set"
    /\ last.amat
    /\ last.out # <<>>
    /\ last.out = heap[last.a].elements

\* C9: a call of a Set leaves every object as it was: elements that were
\* absent stay absent, nothing is drawn from the domain, filled elements are
\* unchanged, whether the call returns a value, nan, or raises.
C9_CallDoesNotMaterialize ==
    [][last'.op = "call" =>
          /\ Len(heap') = Len(heap)
          /\ \A o \in 1..Len(heap) :
                /\ heap'[o].mat = heap[o].mat
                /\ heap'[o].source = heap[o].source
                /\ heap'[o].elements = heap[o].elements]_vars

\* C9, reached: a Set with no elements yet and a domain still to draw from
\* was called and returned a value.
C9_CalledUnmaterialized ==
    /\ last.op = "call"
    /\ ~heap[last.a].mat
    /\ heap[last.a].source # <<>>
    /\ last.exc = ""
    /\ last.out # <<>>

\* C10: A + B returns a Sum of A and B and fills the elements of neither
\* operand: an operand without elements before the + has none after it.
C10_SumIsLazy ==
    (last.op = "add" /\ last.exc = "") =>
        /\ last.obj.kind = "Sum"
        /\ last.obj.left = last.a /\ last.obj.right = last.b
        /\ heap[last.a].mat = last.amat
        /\ heap[last.b].mat = last.bmat

SetOps == {"union", "intersection", "difference", "symmetric_difference"}

\* The elements of an operand as a mathematical set.
ElementSet(o) == Range(Numbers(heap[o].elements))

Expected(op, S, T) ==
    CASE op = "union" -> S \cup T
      [] op = "intersection" -> S \cap T
      [] op = "difference" -> S \ T
      [] op = "symmetric_difference" -> (S \ T) \cup (T \ S)

\* The ascending enumeration of a finite set of integers.
RECURSIVE Ascending(_)
Ascending(S) ==
    IF S = {} THEN <<>>
    ELSE LET m == CHOOSE n \in S : \A k \in S : n <= k
         IN  <<m>> \o Ascending(S \ {m})

\* What a returned Set gives when it is listed.
Materialized(obj) == GenList(obj.expression, obj.source)

\* C5: the Set returned by union, intersection, difference and
\* symmetric_difference of two Sets of integers lists exactly the elements
\* of the mathematical result, each once, in ascending order.
C5_SetAlgebra ==
    last.op \in SetOps =>
        /\ last.exc = ""
        /\ last.obj.kind = "Set"
        /\ Materialized(last.obj) =
              Array(Ascending(Expected(last.op, ElementSet(last.a), ElementSet(last.b))))

\* C5, reached: the intersection of the Sets over (2, 1) and over (1, 2)
\* lists 1, 2.
C5_IntersectionReached ==
    /\ last.op = "intersection"
    /\ heap[last.a].elements = Array(<<2, 1>>)
    /\ heap[last.b].elements = Array(<<1, 2>>)
    /\ Materialized(last.obj) = Array(<<1, 2>>)

\* C7: A == B is true exactly when the elements of A and of B have the
\* same length and are equal at every position.
C7_EqualityIsPositional ==
    last.op = "eq" =>
        LET ea == heap[last.a].elements
            eb == heap[last.b].elements
        IN  last.out = <<BoolV(/\ Len(ea) = Len(eb)
                               /\ \A i \in 1..Len(ea) : ea[i] = eb[i])>>

\* C7, reached: two Sets holding the same elements in a different order
\* compared unequal.
C7_PermutedUnequal ==
    /\ last.op = "eq"
    /\ Len(heap[last.a].elements) = Len(heap[last.b].elements)
    /\ Range(heap[last.a].elements) = Range(heap[last.b].elements)
    /\ heap[last.a].elements # heap[last.b].elements
    /\ last.out = <<BoolV(FALSE)>>

\* The factors a * b is to have: those of a Product operand, else the operand.
Factors(o) == IF heap[o].kind = "Product" THEN heap[o].factors ELSE <<o>>

NoProductIn(factors) == \A k \in 1..Len(factors) : heap[factors[k]].kind # "Product"

\* The i-th tuples of the elements of the factors.
Tuples(factors) ==
    LET n == MinLen([k \in 1..Len(factors) |-> heap[factors[k]].elements])
    IN  [i \in 1..n |->
            TupleV([k \in 1..Len(factors) |-> heap[factors[k]].elements[i].v[1]])]

\* What listing a returned Product gives.
Listed(obj) == Iterate(Append(heap, obj), Len(heap) + 1).out

\* C6: a * b is a Product whose factors are the factors of a followed by
\* those of b, so that (A*B)*C and A*(B*C) both have the factors A, B, C;
\* no factor of a Product is a Product; listing a Product gives the tuples
\* of the i-th elements of its factors.
C6_ProductIsFlat ==
    /\ \A o \in Objs : heap[o].kind = "Product" => NoProductIn(heap[o].factors)
    /\ (last.op = "mul" /\ last.exc = "") =>
          /\ last.obj.kind = "Product"
          /\ last.obj.factors = Factors(last.a) \o Factors(last.b)
          /\ NoProductIn(last.obj.factors)
          /\ Listed(last.obj) = Tuples(Factors(last.a) \o Factors(last.b))
    /\ (last.op = "iter" /\ heap[last.a].kind = "Product"
            /\ NoProductIn(heap[last.a].factors)) =>
          last.out = Tuples(heap[last.a].factors)

\* C6, reached: (A*B)*C was built from the Product A*B and C, has the
\* factors A, B, C and lists at least two triples.
C6_TripleReached ==
    /\ last.op = "mul"
    /\ heap[last.a].kind = "Product"
    /\ heap[last.a].factors = <<1, 2>>
    /\ last.b = 3
    /\ last.obj.factors = <<1, 2, 3>>
    /\ Len(Listed(last.obj)) >= 2
    /\ \A i \in 1..Len(Listed(last.obj)) : Len(Listed(last.obj)[i].v) = 3

\* The operations that need concrete elements.
ElementOps ==
    SetOps \cup {"eq", "issubset", "isdisjoint", "pow"}

\* C11: after equality, issubset, isdisjoint, union, intersection,
\* difference, symmetric_difference or power has returned, every Set operand
\* has its elements, and issubset answered from those elements: one entry
\* for each element of the caller, true where it is an element of the other.
C11_OperandsAreMaterialized ==
    (last.op \in ElementOps /\ last.exc = "") =>
        /\ heap[last.a].kind = "Set" => heap[last.a].mat
        /\ (last.b # 0 /\ heap[last.b].kind = "Set") => heap[last.b].mat
        /\ (last.op = "issubset" /\ heap[last.a].mat /\ heap[last.b].mat) =>
              last.out = [i \in 1..Len(heap[last.a].elements) |->
                            BoolV(heap[last.a].elements[i]
                                    \in Range(heap[last.b].elements))]

\* ------------------------------------------------ materialization programs

\* A program S = Set(<g> for <vars> in <d1..dn>) that is then listed: g has
\* one or two loop variables, up to MaxGuards guards and any member; the
\* domain holds numbers for one loop variable, pairs for two.
InitM ==
    /\ NoDecomposition
    /\ \E g \in {e \in Generators : e.shape = "ok"} :
          \E coll \in (IF Len(g.vars) = 1 THEN IntColls
                       ELSE SeqsUpTo({TupleV(<<m, n>>) : m, n \in 0..MaxInt}, MaxLen)) :
             heap = <<Set__init__(g, coll, 0)>>
    /\ last = Idle

NextM == \E o \in Objs : List(o)

SpecM == InitM /\ [][NextM]_vars

\* d1..dn drained through the derived programs of a Set: each di on which
\* self.constraint is false is dropped, each other di is replaced by what
\* self.function returns on it.
RECURSIVE ThroughPrograms(_, _)
ThroughPrograms(obj, items) ==
    IF items = <<>> THEN <<>>
    ELSE LET arguments == ItemArgs(obj.expression, Head(items))
             c == Call(SetConstraint(obj), arguments)
         IN  (IF ~IsErr(c) /\ Truthy(c)
              THEN <<Call(SetFunction(obj), arguments)>>
              ELSE <<>>) \o ThroughPrograms(obj, Tail(items))

\* C12: the first listing of a Set over d1..dn fills its elements with
\* exactly d1..dn drained through its constraint and combined function.
C12_BufferIsDerived ==
    [][(last'.op = "iter" /\ ~heap[last'.a].mat) =>
          heap'[last'.a].elements =
              ThroughPrograms(heap[last'.a], heap[last'.a].source)]_vars

\* ------------------------------------------------------- upstream programs

\* Sets a program of SpecU may build over its two operands.
MaxDerived == 1

\* S = Set(<g> for x in a * b), or in a + b: the domain of the generator
\* expression is iter() of the Product or Sum, a zip or chain object.
NewSetOverResult(op, a, b, g, cap) ==
    LET res == IF op = "mul" THEN BaseSet__mul__(heap, a, b)
               ELSE BaseSet__add__(heap, a, b)
        t == Len(heap) + 1
        h1 == Append(res.heap, res.obj)
        h2 == IterHeap(h1, t)
        source == Items(Consume(h1, t), t)
    IN  /\ Len(heap) < cap
        /\ res.exc = ""
        /\ Compatible(g, source)
        /\ Step("setover_" \o op, a, b, <<>>,
                Res(SubSeq(h2, 1, Len(heap)), <<>>, "", Set__init__(g, source, 0)),
                TRUE)

\* A program over a Set A = Set(<gA> for x in <coll>) and a Domain D that
\* builds Sets over A, over D, over their products and over their sums.
InitU ==
    /\ NoDecomposition
    /\ \E coll \in Colls, gA \in SetGens :
          heap = <<Set__init__(gA, coll, 0), Domain__init__(Array(<<2, 0>>))>>
    /\ last = Idle

NextU ==
    \/ \E o \in Objs : List(o)
    \/ \E coll \in Colls, g \in SetGens : NewSet(coll, g, 2 + MaxDerived)
    \/ \E d \in Objs, g \in SetGens : NewSetOver(d, g, 2 + MaxDerived)
    \/ \E op \in {"mul", "add"}, a, b \in Objs, g \in SetGens :
          NewSetOverResult(op, a, b, g, 2 + MaxDerived)

SpecU == InitU /\ [][NextU]_vars

\* C13: a Set that holds an upstream constraint holds it of a Set that has
\* its elements. Building B over a Set A fills A's elements at once, before
\* B has any, and B's upstream is A; a Set built over a collection, a
\* Domain, a Product or a Sum has no upstream.
C13_UpstreamIsMaterialized ==
    /\ \A B \in Objs :
          (heap[B].kind = "Set" /\ heap[B].upstream # 0) =>
              /\ heap[B].upstream \in Objs
              /\ heap[heap[B].upstream].kind = "Set"
              /\ heap[heap[B].upstream].mat
    /\ (last.op = "setover" /\ heap[last.a].kind = "Set") =>
          /\ heap[last.a].mat
          /\ heap[last.r].upstream = last.a
          /\ ~heap[last.r].mat
          /\ heap[last.r].source = heap[last.a].elements
    /\ (last.op = "setover" /\ heap[last.a].kind # "Set") =>
          heap[last.r].upstream = 0
    /\ last.op \in {"set", "setover_mul", "setover_add"} =>
          heap[last.r].upstream = 0

\* C13, reached: B was built over a Set A that had no elements before, and
\* A has them now.
C13_BuiltOverUnmaterialized ==
    /\ last.op = "setover"
    /\ heap[last.a].kind = "Set"
    /\ ~last.amat
    /\ heap[last.a].mat
    /\ heap[last.a].elements # <<>>
    /\ heap[last.r].upstream = last.a

====
